---- MODULE Spec2Model ----
(***************************************************************************)
(* Retrieval and conversational-context engine of the store manual         *)
(* assistant: follow-up classification (streamlit_app.py), lock            *)
(* computation and query composition (CoffeeMakerRAG.query), the staged    *)
(* retrieval with rank-weighted voting (CoffeeMakerRAG.retrieve) and the   *)
(* filtered search with fallbacks (ChromaDBManager.search).                *)
(*                                                                         *)
(* Texts are sequences of word tokens.  A "?" token stands for a question  *)
(* mark attached to the preceding word, so it is counted by count('?')     *)
(* but is not a word of its own for split().  Keyword matching is done on  *)
(* whole tokens (phrases are runs of consecutive tokens).                  *)
(***************************************************************************)
EXTENDS Integers, Sequences, FiniteSets, TLC

VARIABLES
    base_top_k,     \* settings.retrieval_top_k
    short_ctx,      \* st.session_state.short_ctx
    turn,           \* what the last processed turn did (observation record)
    ranking,        \* the index chunks ordered by similarity to the query
    rstate,         \* GraphState handed to retrieve (retrieval specification)
    rout,           \* what retrieve returned (retrieval specification)
    ref_docs,       \* documents handed to _generate_references
    references,     \* what _generate_references returned
    session,        \* per session: its query call (arguments, position, result)
    graph_state,    \* the GraphState threaded through the workflow of a call
    messages,       \* st.session_state.messages
    last_followup_options,  \* st.session_state.last_followup_options
    pc              \* position of the specification that is running

vars == <<base_top_k, short_ctx, turn, ranking, rstate, rout, ref_docs,
          references, session, graph_state, messages, last_followup_options,
          pc>>

(***************************************************************************)
(* Bounds                                                                  *)
(***************************************************************************)
MaxPoolLen == 14
MaxMinority == 3
MaxLockedPool == 3
MaxPage == 7
MaxRefDocs == 6
MaxHistory == 6

(***************************************************************************)
(* Values                                                                  *)
(***************************************************************************)
None == "None"

Falsy(x) == x \in {None, ""}

Truthy(x) == ~Falsy(x)

\* python `a or b`
Or(a, b) == IF Truthy(a) THEN a ELSE b

Min(a, b) == IF a <= b THEN a ELSE b

Max(a, b) == IF a >= b THEN a ELSE b

Take(s, n) == SubSeq(s, 1, Min(n, Len(s)))

RetrievalTopKs == {2, 15}

VoteWindow == 12

ShortWords == 6

(***************************************************************************)
(* Texts                                                                   *)
(***************************************************************************)
Lower(tok) ==
    CASE tok = "Vulcan" -> "vulcan"
      [] tok = "Metos" -> "metos"
      [] tok = "I" -> "i"
      [] OTHER -> tok

LowerText(text) == [i \in 1..Len(text) |-> Lower(text[i])]

RECURSIVE CountQ(_)
CountQ(text) ==
    IF text = <<>> THEN 0
    ELSE (IF Head(text) = "?" THEN 1 ELSE 0) + CountQ(Tail(text))

\* len(t.split())
WordCount(text) == Len(text) - CountQ(text)

ContainsPhrase(text, phrase) ==
    \E i \in 1..Len(text) :
        /\ i + Len(phrase) - 1 <= Len(text)
        /\ SubSeq(text, i, i + Len(phrase) - 1) = phrase

StartsWithAny(text, words) == Len(text) > 0 /\ text[1] \in words

ContainsAny(text, phrases) == \E p \in phrases : ContainsPhrase(text, p)

BRAND_KEYWORDS ==
    << <<(<<"square">>), "Square">>,
       <<(<<"clover">>), "Clover">>,
       <<(<<"oracle">>), "Oracle">>,
       <<(<<"micros">>), "Oracle">>,
       <<(<<"lucas">>), "Oracle">>,
       <<(<<"metos">>), "Metos">>,
       <<(<<"vulcan">>), "Vulcan">>,
       <<(<<"lincoln">>), "Lincoln">>,
       <<(<<"pitco">>), "Pitco">>,
       <<(<<"la", "marzocco">>), "La Marzocco">>,
       <<(<<"manitowoc">>), "Manitowoc">>,
       <<(<<"v400m">>), "V400m">>,
       <<(<<"adyen">>), "V400m">> >>

EQUIPMENT_TYPE_KEYWORDS ==
    << <<"POS", {<<"pos">>, <<"terminal">>, <<"payment">>, <<"refund">>,
                 <<"void">>, <<"transaction">>, <<"totals">>, <<"receipt">>,
                 <<"merchant">>, <<"card">>, <<"paper", "roll">>}>>,
       <<"Coffee_Maker", {<<"coffee", "maker">>, <<"coffee", "machine">>,
                          <<"brew">>, <<"descale">>, <<"carafe">>}>>,
       <<"Espresso_Machine", {<<"espresso">>, <<"steam", "wand">>,
                              <<"portafilter">>}>>,
       <<"Fryer", {<<"fryer">>, <<"fry">>, <<"oil">>, <<"basket">>,
                   <<"boil", "out">>, <<"boil-out">>, <<"filtering">>}>>,
       <<"Pizza_Oven", {<<"pizza", "oven">>, <<"impinger">>}>>,
       <<"Oven", {<<"oven">>, <<"convection">>, <<"bake">>, <<"broil">>,
                  <<"thermostat">>, <<"roast">>}>>,
       <<"Ice_Machine", {<<"ice", "machine">>, <<"ice", "maker">>}>> >>

\* first table entry, in table order, whose keyword occurs in the text
RECURSIVE FirstBrand(_, _)
FirstBrand(t, table) ==
    IF table = <<>> THEN None
    ELSE IF ContainsPhrase(t, Head(table)[1]) THEN Head(table)[2]
    ELSE FirstBrand(t, Tail(table))

RECURSIVE FirstType(_, _)
FirstType(t, table) ==
    IF table = <<>> THEN None
    ELSE IF ContainsAny(t, Head(table)[2]) THEN Head(table)[1]
    ELSE FirstType(t, Tail(table))

detect_equipment_in_query(text) ==
    LET t == LowerText(text)
    IN  [brand |-> FirstBrand(t, BRAND_KEYWORDS),
         type  |-> FirstType(t, EQUIPMENT_TYPE_KEYWORDS)]

\* every brand the text names, whatever the table order
BrandsNamed(text) ==
    {BRAND_KEYWORDS[i][2] : i \in {j \in 1..Len(BRAND_KEYWORDS) :
        ContainsPhrase(LowerText(text), BRAND_KEYWORDS[j][1])}}

TypesNamed(text) ==
    {EQUIPMENT_TYPE_KEYWORDS[i][1] : i \in {j \in 1..Len(EQUIPMENT_TYPE_KEYWORDS) :
        ContainsAny(LowerText(text), EQUIPMENT_TYPE_KEYWORDS[j][2])}}

followup_patterns(t) ==
    \/ StartsWithAny(t, {"yes", "no", "yeah", "yep", "nope", "ok", "okay",
                         "done", "cool", "sure"})
    \/ StartsWithAny(t, {"it", "this", "that", "he", "she", "they"})
    \/ ContainsAny(t, {<<"it", "is">>, <<"it's">>})
    \/ ContainsAny(t, {<<"power", "on">>, <<"powered", "on">>,
                       <<"power", "off">>, <<"powered", "off">>,
                       <<"turn", "on">>, <<"turned", "on">>,
                       <<"turn", "off">>, <<"turned", "off">>})
    \/ ContainsAny(t, {<<"blinking">>, <<"flashing">>, <<"solid">>})
    \/ ContainsAny(t, {<<"not", "connected">>, <<"connected">>})
    \/ ContainsAny(t, {<<"i", "did">>, <<"i", "tried">>, <<"i", "can't">>,
                       <<"i", "cannot">>, <<"i", "see">>, <<"i", "don't">>,
                       <<"i", "do", "not">>})
    \/ ContainsAny(t, {<<"error">>, <<"code">>, <<"message">>})

(***************************************************************************)
(* Messages the user types                                                 *)
(***************************************************************************)
MsgAffirm == <<"yes", "that", "worked">>

MsgShift == <<"does", "it", "need", "cleaning", "after", "every", "shift", "?">>

MsgVulcanOven == <<"how", "do", "I", "reset", "my", "Vulcan", "oven">>

MsgMetosVsVulcan == <<"is", "metos", "like", "vulcan", "?">>

MsgTwoParts == <<"how", "hot", "?", "how", "long", "?">>

MsgBlinking ==
    <<"it", "is", "blinking", "again", "after", "i", "restarted", "everything">>

MsgDescaleMetos ==
    <<"how", "do", "i", "descale", "the", "Metos", "machine", "today", "?">>

MsgMetosError ==
    <<"the", "Metos", "machine", "shows", "an", "error", "code", "again">>

Messages ==
    {MsgAffirm, MsgShift, MsgVulcanOven, MsgMetosVsVulcan, MsgTwoParts,
     MsgBlinking, MsgDescaleMetos, MsgMetosError}

\* a message that is just the number of a follow-up option
NumberedInputs == {<<"1">>, <<"2">>}

Texts == Messages \cup NumberedInputs

(***************************************************************************)
(* is_followup_message.  The detection and the pattern match of a message  *)
(* depend on its text alone: they are tabulated once over the messages.    *)
(***************************************************************************)
DetectedIn == [m \in Texts |-> detect_equipment_in_query(m)]

PatternInMut == [m \in Texts |-> TRUE]

PatternIn == [m \in Texts |-> followup_patterns(LowerText(m))]

IsShortMut(text) == WordCount(text) < ShortWords - 3

\* len(t.split()) <= 6
IsShort(text) == WordCount(text) <= ShortWords

is_followup_messageMut(text, ctx) ==
    LET d == DetectedIn[text]
    IN  IF text = <<>> THEN FALSE
        ELSE IF Truthy(d.brand) /\ Truthy(ctx.last_brand)
                /\ d.brand # ctx.last_brand
            THEN FALSE
        ELSE IF Truthy(d.type) /\ Truthy(ctx.last_equipment_type)
                /\ d.type # ctx.last_equipment_type
            THEN FALSE
        ELSE IF IsShort(text) THEN TRUE
        ELSE PatternIn[text] /\ Falsy(d.brand) /\ Falsy(d.type)

is_followup_message(text, ctx) ==
    LET d == DetectedIn[text]
        last_brand == ctx.last_brand
        last_type == ctx.last_equipment_type
    IN  IF text = <<>> THEN FALSE
        ELSE IF Truthy(d.brand) /\ Truthy(last_brand) /\ d.brand # last_brand
            THEN FALSE
        ELSE IF Truthy(d.type) /\ Truthy(last_type) /\ d.type # last_type
            THEN FALSE
        ELSE IF (Truthy(d.brand) \/ Truthy(d.type))
                /\ (Falsy(last_brand) /\ Falsy(last_type))
            THEN FALSE
        ELSE IF IsShort(text) THEN TRUE
        ELSE IF PatternIn[text] /\ Falsy(d.brand) /\ Falsy(d.type)
            THEN TRUE
        ELSE FALSE

(***************************************************************************)
(* Indexed chunks.  index_documents always stores the equipment_type,      *)
(* equipment_brand and title keys; a chunk without a label holds "".       *)
(***************************************************************************)
Chunk(t, b, ti) == [equipment_type |-> t, equipment_brand |-> b, title |-> ti]

CoffeeChunk == Chunk("Coffee_Maker", "Metos", "Coffee Maker Manual")

VulcanChunk == Chunk("Oven", "Vulcan", "Vulcan Installation & Operation Manual")

RebrandChunk == Chunk("Coffee_Maker", "Vulcan", "Unknown Manual")

TypeOnlyChunk == Chunk("Oven", "", "Unknown Manual")

BrandOnlyChunk == Chunk("", "Metos", "Service Notes")

BareChunk == Chunk("", "", "Service Notes")

ChunkKinds ==
    {CoffeeChunk, VulcanChunk, RebrandChunk, TypeOnlyChunk, BrandOnlyChunk,
     BareChunk}

\* metadata.get('page_number') of a chunk stored without a page number
NoPage == -1

\* the page number stored with the chunks of a manual
PageOf(c) ==
    CASE c.title = "Coffee Maker Manual" -> 12
      [] c.title = "Vulcan Installation & Operation Manual" -> 3
      [] OTHER -> NoPage

\* where the chunks of the minority kind sit in a ranking of n chunks
MinorityPlacements(n) ==
    {D \in SUBSET (1..n) : Cardinality(D) <= MaxMinority}

\* the ranking of n chunks of kind m, with chunks of kind k at the places D
Pool(n, D, m, k) == [i \in 1..n |-> IF i \in D THEN k ELSE m]

\* the rankings a conversation turn may meet
ConvRankings ==
    {<<>>, <<CoffeeChunk>>, <<VulcanChunk, VulcanChunk>>,
     <<CoffeeChunk, VulcanChunk>>, <<TypeOnlyChunk>>, <<BrandOnlyChunk>>}

(***************************************************************************)
(* ChromaDBManager.search                                                  *)
(***************************************************************************)
\* _run_query turns row i of the result into a document; score = 1 - distance
\* falls with the rank of the chunk in the similarity order
Document(rk, i) ==
    [equipment_type |-> rk[i].equipment_type,
     equipment_brand |-> rk[i].equipment_brand,
     title |-> rk[i].title,
     page_number |-> PageOf(rk[i]),
     score |-> Len(rk) + 1 - i]

\* _where: a filter is applied only for a truthy brand / type
Matches(c, brand, etype) ==
    /\ Truthy(brand) => c.equipment_brand = brand
    /\ Truthy(etype) => c.equipment_type = etype

RECURSIVE MatchingFrom(_, _, _, _)
MatchingFrom(rk, i, brand, etype) ==
    IF i > Len(rk) THEN <<>>
    ELSE IF Matches(rk[i], brand, etype)
        THEN <<Document(rk, i)>> \o MatchingFrom(rk, i + 1, brand, etype)
    ELSE MatchingFrom(rk, i + 1, brand, etype)

_run_query(rk, brand, etype, n) == Take(MatchingFrom(rk, 1, brand, etype), n)

search(rk, top_k, equipment_brand, equipment_type) ==
    LET strict == _run_query(rk, equipment_brand, equipment_type, top_k)
        typed == IF strict = <<>> /\ Truthy(equipment_type)
                 THEN _run_query(rk, None, equipment_type, top_k)
                 ELSE strict
    IN  IF typed = <<>> THEN _run_query(rk, None, None, top_k) ELSE typed

SearchCall(q, top_k, brand, etype) ==
    [query |-> q, top_k |-> top_k, equipment_brand |-> brand,
     equipment_type |-> etype]

(***************************************************************************)
(* CoffeeMakerRAG.retrieve: voting                                         *)
(***************************************************************************)
LabelledMut(x) == x # None

\* `if equip_type:` / `if brand:`
Labelled(x) == Truthy(x)

TypeLabelsOf(docs) == [i \in 1..Len(docs) |-> docs[i].equipment_type]

BrandLabelsOf(docs) == [i \in 1..Len(docs) |-> docs[i].equipment_brand]

VotingPoolMut(all_results) == all_results

\* all_results[:12]
VotingPool(all_results) == Take(all_results, VoteWindow)

RankWeightMut(rank) == 1

\* weight = 12 - rank
RankWeight(rank) == VoteWindow - rank

RECURSIVE VotesFrom(_, _, _)
VotesFrom(labels, i, l) ==
    IF i > Len(labels) THEN 0
    ELSE (IF labels[i] = l THEN RankWeight(i - 1) ELSE 0)
         + VotesFrom(labels, i + 1, l)

\* the dict built by the voting loop: its keys and the votes of a key
VoteKeys(labels) == {labels[i] : i \in {j \in 1..Len(labels) : Labelled(labels[j])}}

Votes(labels, l) == VotesFrom(labels, 1, l)

FirstSeenMut(labels, l) == CHOOSE i \in 1..Len(labels) :
    labels[i] = l /\ \A j \in (i + 1)..Len(labels) : labels[j] # l

\* the place of a key in the insertion order of the dict
FirstSeen(labels, l) == CHOOSE i \in 1..Len(labels) :
    labels[i] = l /\ \A j \in 1..(i - 1) : labels[j] # l

RECURSIVE SumVotes(_, _)
SumVotes(labels, keys) ==
    IF keys = {} THEN 0
    ELSE LET l == CHOOSE x \in keys : TRUE
         IN  Votes(labels, l) + SumVotes(labels, keys \ {l})

\* max(votes, key=votes.get): the first key, in insertion order, of maximal votes
MaxVoted(labels) ==
    IF VoteKeys(labels) = {} THEN None
    ELSE CHOOSE l \in VoteKeys(labels) :
            \A o \in VoteKeys(labels) :
                \/ Votes(labels, l) > Votes(labels, o)
                \/ /\ Votes(labels, l) = Votes(labels, o)
                   /\ FirstSeen(labels, l) <= FirstSeen(labels, o)

DominanceClearMut(winner_votes, total_votes) ==
    total_votes > 0 /\ 10 * winner_votes > 6 * total_votes

\* dominance = winner_votes / total_votes if total_votes > 0 else 0;
\* dominance >= 0.6
DominanceClear(winner_votes, total_votes) ==
    total_votes > 0 /\ 10 * winner_votes >= 6 * total_votes

vote(all_results) ==
    LET pool == VotingPool(all_results)
        tl == TypeLabelsOf(pool)
        bl == BrandLabelsOf(pool)
        detected_type == MaxVoted(tl)
    IN  [detected_type |-> detected_type,
         detected_brand |-> MaxVoted(bl),
         winner_votes |-> IF detected_type = None THEN 0
                          ELSE Votes(tl, detected_type),
         total_votes |-> SumVotes(tl, VoteKeys(tl))]

(***************************************************************************)
(* CoffeeMakerRAG._pick_primary_manual (the later definition in the class  *)
(* body, which is the one in effect)                                       *)
(***************************************************************************)
TitlesOf(documents) == {documents[i].title : i \in 1..Len(documents)}

TitleCount(documents, ti) ==
    Cardinality({i \in 1..Len(documents) : documents[i].title = ti})

\* max_score starts at 0.0
RECURSIVE TitleMaxScore(_, _, _)
TitleMaxScore(documents, i, ti) ==
    IF i > Len(documents) THEN 0
    ELSE Max(IF documents[i].title = ti THEN documents[i].score ELSE 0,
             TitleMaxScore(documents, i + 1, ti))

TitleFirst(documents, ti) == CHOOSE i \in 1..Len(documents) :
    documents[i].title = ti /\ \A j \in 1..(i - 1) : documents[j].title # ti

\* key (count, max_score), reverse=True; the stable sort keeps insertion order
TitleBefore(documents, a, b) ==
    LET ca == TitleCount(documents, a)
        cb == TitleCount(documents, b)
        sa == TitleMaxScore(documents, 1, a)
        sb == TitleMaxScore(documents, 1, b)
    IN  \/ ca > cb
        \/ ca = cb /\ sa > sb
        \/ ca = cb /\ sa = sb /\ TitleFirst(documents, a) <= TitleFirst(documents, b)

NoPrimaryMut ==
    [title |-> "Unknown Manual", equipment_type |-> "unknown",
     equipment_brand |-> "unknown"]

\* if not documents: return {"title": None, ...}
NoPrimary ==
    [title |-> None, equipment_type |-> None, equipment_brand |-> None]

_pick_primary_manual(documents) ==
    IF documents = <<>>
    THEN NoPrimary
    ELSE LET best_title == CHOOSE a \in TitlesOf(documents) :
                 \A b \in TitlesOf(documents) : TitleBefore(documents, a, b)
             first == documents[TitleFirst(documents, best_title)]
         IN  [title |-> best_title,
              equipment_type |-> first.equipment_type,
              equipment_brand |-> first.equipment_brand]

(***************************************************************************)
(* CoffeeMakerRAG.retrieve                                                 *)
(***************************************************************************)
\* top_k = base_top_k * question_count if question_count > 1 else base_top_k
ScaledTopK(question, base) ==
    IF CountQ(question) > 1 THEN base * CountQ(question) ELSE base

Stage1TopKMut(top_k) == top_k * 2

\* stage1_top_k = max(top_k * 2, 16)
Stage1TopK(top_k) == Max(top_k * 2, 16)

UseLockMut(locked_brand, locked_type) == Truthy(locked_brand) /\ Truthy(locked_type)

\* if locked_brand or locked_type
UseLock(locked_brand, locked_type) == Truthy(locked_brand) \/ Truthy(locked_type)

NoVote ==
    [detected_type |-> None, detected_brand |-> None, winner_votes |-> 0,
     total_votes |-> 0]

retrieve_locked(state, rk, question, top_k) ==
    LET documents == search(rk, top_k, state.locked_brand, state.locked_type)
        primary == _pick_primary_manual(documents)
    IN  [documents |-> documents,
         locked_brand |-> state.locked_brand,
         locked_type |-> state.locked_type,
         locked_title |-> state.locked_title,
         primary_manual_title |-> primary.title,
         primary_equipment_type |-> Or(state.locked_type, primary.equipment_type),
         primary_equipment_brand |-> Or(state.locked_brand, primary.equipment_brand),
         calls |-> <<SearchCall(question, top_k, state.locked_brand,
                                state.locked_type)>>,
         voted |-> FALSE,
         all_results |-> <<>>,
         votes |-> NoVote]

retrieve_unlocked(state, rk, question, top_k) ==
    LET all_results == search(rk, Stage1TopK(top_k), None, None)
        v == vote(all_results)
        clear == /\ v.detected_type # None
                 /\ DominanceClear(v.winner_votes, v.total_votes)
        documents == IF clear
                     THEN search(rk, top_k, v.detected_brand, v.detected_type)
                     ELSE Take(all_results, top_k)
        primary == _pick_primary_manual(documents)
        primary_type == Or(v.detected_type, primary.equipment_type)
        primary_brand == Or(v.detected_brand, primary.equipment_brand)
    IN  [documents |-> documents,
         locked_brand |-> primary_brand,
         locked_type |-> primary_type,
         locked_title |-> primary.title,
         primary_manual_title |-> primary.title,
         primary_equipment_type |-> primary_type,
         primary_equipment_brand |-> primary_brand,
         calls |-> <<SearchCall(question, Stage1TopK(top_k), None, None)>>
                   \o (IF clear
                       THEN <<SearchCall(question, top_k, v.detected_brand,
                                         v.detected_type)>>
                       ELSE <<>>),
         voted |-> TRUE,
         all_results |-> all_results,
         votes |-> v]

retrieve(state, rk, base) ==
    LET question == IF state.rewritten_question # <<>>
                    THEN state.rewritten_question ELSE state.question
        top_k == ScaledTopK(question, base)
    IN  IF UseLock(state.locked_brand, state.locked_type)
        THEN retrieve_locked(state, rk, question, top_k)
        ELSE retrieve_unlocked(state, rk, question, top_k)

NoOut ==
    [documents |-> <<>>, locked_brand |-> None, locked_type |-> None,
     locked_title |-> None, primary_manual_title |-> None,
     primary_equipment_type |-> None, primary_equipment_brand |-> None,
     calls |-> <<>>, voted |-> FALSE, all_results |-> <<>>, votes |-> NoVote]

GraphState(question, retrieval_query, brand, etype, title) ==
    [question |-> question, rewritten_question |-> retrieval_query,
     locked_brand |-> brand, locked_type |-> etype, locked_title |-> title]

(***************************************************************************)
(* CoffeeMakerRAG._generate_references.  The reference string is modelled  *)
(* by its parts: one part per manual title, in sorted title order, each    *)
(* with the form of its page reference ("Page N", "Pages a, b, c",         *)
(* "Pages A-B", "Pages a, b, c, and K more") and the pages it prints.      *)
(***************************************************************************)
RefSourcesMut == MaxRefDocs

RefSources == 5

CitedDocsMut(documents) == documents

\* documents[:5]
CitedDocs(documents) == Take(documents, RefSources)

CitableMut(d) == Truthy(d.title) \/ d.page_number # NoPage

\* if title and page_num is not None
Citable(d) == Truthy(d.title) /\ d.page_number # NoPage

\* manual_pages: its keys and the page set of a key
ManualTitles(docs) == {docs[i].title : i \in {j \in 1..Len(docs) : Citable(docs[j])}}

ManualPages(docs, ti) ==
    {docs[i].page_number :
        i \in {j \in 1..Len(docs) : Citable(docs[j]) /\ docs[j].title = ti}}

\* sorted(list(pages))
RECURSIVE SortedPages(_)
SortedPages(pages) ==
    IF pages = {} THEN <<>>
    ELSE LET m == CHOOSE x \in pages : \A y \in pages : x <= y
         IN  <<m>> \o SortedPages(pages \ {m})

is_consecutive(sorted_pages) ==
    \A i \in 1..(Len(sorted_pages) - 1) : sorted_pages[i] + 1 = sorted_pages[i + 1]

page_ref(sorted_pages) ==
    IF Len(sorted_pages) = 1
        THEN [form |-> "Page", pages |-> sorted_pages, more |-> 0]
    ELSE IF Len(sorted_pages) = 2
        THEN [form |-> "Pages list", pages |-> sorted_pages, more |-> 0]
    ELSE IF Len(sorted_pages) <= 5
        THEN [form |-> "Pages list", pages |-> sorted_pages, more |-> 0]
    ELSE IF is_consecutive(sorted_pages)
        THEN [form |-> "Pages range",
              pages |-> <<sorted_pages[1], sorted_pages[Len(sorted_pages)]>>,
              more |-> 0]
    ELSE [form |-> "Pages and more", pages |-> Take(sorted_pages, 3),
          more |-> Len(sorted_pages) - 3]

\* the titles of the model in the order of python's string comparison
SortedTitles ==
    <<"Coffee Maker Manual", "Service Notes", "Unknown Manual",
      "Vulcan Installation & Operation Manual">>

\* for manual_title, pages in sorted(manual_pages.items())
RECURSIVE reference_parts(_, _)
reference_parts(docs, i) ==
    IF i > Len(SortedTitles) THEN <<>>
    ELSE (IF SortedTitles[i] \in ManualTitles(docs)
          THEN <<[title |-> SortedTitles[i],
                  page_ref |-> page_ref(SortedPages(
                                   ManualPages(docs, SortedTitles[i])))]>>
          ELSE <<>>)
         \o reference_parts(docs, i + 1)

NoReferences == [heading |-> "", parts |-> <<>>]

_generate_references(documents) ==
    LET parts == reference_parts(CitedDocs(documents), 1)
    IN  IF documents = <<>> \/ parts = <<>> THEN NoReferences
        ELSE [heading |-> IF Len(parts) = 1 THEN "Reference" ELSE "References",
              parts |-> parts]

(***************************************************************************)
(* CoffeeMakerRAG.generate_answer.  The prose of the language model is an  *)
(* opaque value; the question handed to it, the multi-part instruction and *)
(* the appended references are what the code decides.                      *)
(***************************************************************************)
NoGeneration ==
    [answer |-> "", question |-> <<>>, multi_part |-> FALSE,
     references |-> NoReferences]

generate_answer(state, documents) ==
    [answer |-> "answer",
     question |-> state.question,
     multi_part |-> CountQ(state.question) > 1,
     references |-> _generate_references(documents)]

(***************************************************************************)
(* CoffeeMakerRAG.query                                                    *)
(***************************************************************************)
brand_keywords ==
    << <<(<<"square">>), "Square">>,
       <<(<<"clover">>), "Clover">>,
       <<(<<"oracle">>), "Oracle">>,
       <<(<<"micros">>), "Oracle">>,
       <<(<<"lucas">>), "Oracle">>,
       <<(<<"metos">>), "Metos">>,
       <<(<<"la", "marzocco">>), "La Marzocco">>,
       <<(<<"vulcan">>), "Vulcan">>,
       <<(<<"lincoln">>), "Lincoln">>,
       <<(<<"pitco">>), "Pitco">>,
       <<(<<"manitowoc">>), "Manitowoc">>,
       <<(<<"v400m">>), "V400m">>,
       <<(<<"adyen">>), "V400m">> >>

InferredIn == [m \in Texts |-> FirstBrand(LowerText(m), brand_keywords)]

infer_brand_from_textMut(t) == None

infer_brand_from_text(t) == InferredIn[t]

brand_to_type(brand) ==
    CASE brand \in {"Square", "Clover", "Oracle", "V400m"} -> "POS"
      [] brand = "Metos" -> "Coffee_Maker"
      [] brand = "La Marzocco" -> "Espresso_Machine"
      [] brand = "Vulcan" -> "Oven"
      [] brand = "Lincoln" -> "Pizza_Oven"
      [] brand = "Pitco" -> "Fryer"
      [] brand = "Manitowoc" -> "Ice_Machine"
      [] OTHER -> None

\* str.strip(): a " " token is white space at an end of the text
RECURSIVE Strip(_)
Strip(text) ==
    IF text = <<>> THEN <<>>
    ELSE IF Head(text) = " " THEN Strip(Tail(text))
    ELSE IF text[Len(text)] = " " THEN Strip(SubSeq(text, 1, Len(text) - 1))
    ELSE text

followup_queryMut(last_q, question) == last_q \o question

\* f"{last_q}\nFollow-up: {question}"
followup_query(last_q, question) == last_q \o <<"\n", "Follow-up:">> \o question

\* last_q = (short_ctx.get("last_question") or "").strip()
compose_retrieval_query(question, ctx, is_followup) ==
    IF is_followup /\ Strip(ctx.last_question) # <<>>
    THEN followup_query(Strip(ctx.last_question), question)
    ELSE question

compute_locksMut(ctx, is_followup) ==
    [brand |-> None, type |-> None, title |-> None]

compute_locks(ctx, is_followup) ==
    IF ~is_followup
    THEN [brand |-> None, type |-> None, title |-> None]
    ELSE LET b0 == Or(ctx.last_brand, None)
             t0 == Or(ctx.last_equipment_type, None)
             locked_brand == IF Falsy(b0) /\ Strip(ctx.last_question) # <<>>
                             THEN infer_brand_from_text(Strip(ctx.last_question))
                             ELSE b0
             locked_type == IF Falsy(t0) /\ Truthy(locked_brand)
                            THEN brand_to_type(locked_brand)
                            ELSE t0
         IN  [brand |-> locked_brand, type |-> locked_type,
              title |-> Or(ctx.last_manual_title, None)]

initial_state(question, ctx, is_followup) ==
    LET lock == compute_locks(ctx, is_followup)
    IN  GraphState(question,
                   compose_retrieval_query(question, ctx, is_followup),
                   lock.brand, lock.type, lock.title)

query(question, ctx, is_followup, rk, base) ==
    LET st == initial_state(question, ctx, is_followup)
    IN  [state |-> st, out |-> retrieve(st, rk, base)]

(***************************************************************************)
(* streamlit_app.py: session state and turn processing                     *)
(***************************************************************************)
EmptyCtx ==
    [last_question |-> <<>>, last_answer |-> "", last_manual_title |-> "",
     last_equipment_type |-> "", last_brand |-> ""]

extract_primary_manual_title(docs) ==
    IF docs = <<>> THEN None
    ELSE CHOOSE a \in TitlesOf(docs) : \A b \in TitlesOf(docs) :
            \/ TitleCount(docs, a) > TitleCount(docs, b)
            \/ /\ TitleCount(docs, a) = TitleCount(docs, b)
               /\ TitleFirst(docs, a) <= TitleFirst(docs, b)

NoTurn(kind) ==
    [kind |-> kind, user_input |-> <<>>, ctx |-> EmptyCtx, has_prev |-> FALSE,
     followup |-> FALSE, state |-> GraphState(<<>>, <<>>, None, None, None),
     out |-> NoOut]

(***************************************************************************)
(* The compiled workflow and the calls of CoffeeMakerRAG.query.  One       *)
(* engine is shared by the sessions; a call keeps its GraphState in its    *)
(* own frame.  The rewrite node is registered but no edge leads to it.     *)
(***************************************************************************)
Sessions == {1, 2}

entry_point == "retrieve"

edgesMut == [retrieve |-> "END", rewrite |-> "retrieve", generate |-> "END"]

\* workflow.add_edge(...)
edges == [retrieve |-> "generate", rewrite |-> "retrieve", generate |-> "END"]

FrameMut(s) == 1

\* initial_state and the states returned by the nodes are locals of the call
Frame(s) == s

NoResult ==
    [question |-> <<>>, answer |-> NoGeneration, documents |-> <<>>,
     retries |-> 0, primary_manual_title |-> None,
     primary_equipment_type |-> None, primary_equipment_brand |-> None]

NoCall ==
    [pc |-> "idle", question |-> <<>>, short_ctx |-> EmptyCtx,
     given_ctx |-> EmptyCtx, is_followup |-> FALSE, retrieve_runs |-> 0,
     generate_runs |-> 0, result |-> NoResult]

NoGraphState ==
    [state |-> GraphState(<<>>, <<>>, None, None, None), out |-> NoOut,
     generation |-> NoGeneration]

has_prevMut(ctx) == TRUE

\* has_prev = bool(st.session_state.short_ctx.get("last_question"))
has_prev(ctx) == ctx.last_question # <<>>

update_ctx(user_input, followup, result) ==
    /\ short_ctx' =
          [last_question |-> user_input,
           last_answer |-> "answer",
           last_manual_title |->
               Or(result.out.primary_manual_title,
                  Or(extract_primary_manual_title(result.out.documents), "")),
           last_equipment_type |-> Or(result.out.primary_equipment_type, ""),
           last_brand |-> Or(result.out.primary_equipment_brand, "")]
    /\ turn' = [kind |-> "turn", user_input |-> user_input,
                ctx |-> short_ctx, has_prev |-> has_prev(short_ctx), followup |-> followup,
                state |-> result.state, out |-> result.out]

Turn(user_input, rk) ==
    /\ pc = "chat"
    /\ \E followup \in {has_prev(short_ctx)
                         /\ is_followup_message(user_input, short_ctx)} :
          \E result \in {query(user_input, short_ctx, followup, rk, base_top_k)} :
              update_ctx(user_input, followup, result)
    /\ ranking' = rk
    /\ UNCHANGED <<base_top_k, rstate, rout, ref_docs, references, session,
                   graph_state, pc,
                   messages, last_followup_options>>

ClearChat ==
    /\ pc \in {"chat", "session"}
    /\ messages' = <<>>
    /\ short_ctx' = EmptyCtx
    /\ turn' = NoTurn("clear")
    /\ UNCHANGED <<base_top_k, ranking, rstate, rout, ref_docs, references,
                   session, graph_state, last_followup_options, pc>>

Init ==
    /\ base_top_k \in RetrievalTopKs
    /\ short_ctx = EmptyCtx
    /\ turn = NoTurn("none")
    /\ ranking = <<>>
    /\ rstate = GraphState(<<>>, <<>>, None, None, None)
    /\ rout = NoOut
    /\ ref_docs = <<>>
    /\ references = NoReferences
    /\ session = [s \in Sessions |-> NoCall]
    /\ graph_state = [s \in Sessions |-> NoGraphState]
    /\ messages = <<>>
    /\ last_followup_options = <<>>
    /\ pc = "chat"

Next ==
    \/ \E user_input \in Messages, rk \in ConvRankings : Turn(user_input, rk)
    \/ ClearChat

Spec == Init /\ [][Next]_vars

(***************************************************************************)
(* The session on its own: turn processing with the chat history, the      *)
(* follow-up options read from the response, the expansion of a numbered   *)
(* input and the except block, over conversations of MaxHistory entries.   *)
(* The conversation specification above follows the context alone, which   *)
(* lets it run conversations of any number of turns.                       *)
(***************************************************************************)
OptionNumber(text) ==
    CASE text = <<"1">> -> 1
      [] text = <<"2">> -> 2
      [] text = <<"3">> -> 3
      [] text = <<"4">> -> 4
      [] text = <<"5">> -> 5
      [] OTHER -> 0

expand_numberedMut(user_input, options) == user_input

\* if user_input.strip() in ['1', ..., '5'] and 0 <= idx < len(options)
expand_numbered(user_input, options) ==
    IF OptionNumber(Strip(user_input)) >= 1
       /\ OptionNumber(Strip(user_input)) - 1 < Len(options)
    THEN options[OptionNumber(Strip(user_input))]
    ELSE user_input

HistoryEntry(role, content) == [role |-> role, content |-> content]

ErrorMessageMut == "answer"

\* f"Error: {str(e)}"
ErrorMessage == "error"

ChatInputs == {MsgVulcanOven, MsgAffirm} \cup NumberedInputs

ChatRankings == {<<>>, <<CoffeeChunk>>, <<VulcanChunk, VulcanChunk>>}

\* the option lists re.findall reads from a response: none, or one option
ResponseOptions == {<<>>, <<MsgShift>>}

\* the handler of a prompt; raises tells whether the query call raised
ProcessPrompt(original_input, rk, options, raises) ==
    /\ pc = "session"
    /\ Len(messages) + 2 <= MaxHistory
    /\ LET user_input == expand_numbered(original_input, last_followup_options)
           followup == has_prev(short_ctx)
                       /\ is_followup_message(user_input, short_ctx)
       IN  IF raises
           THEN /\ messages' = messages
                       \o <<HistoryEntry("user", original_input),
                            HistoryEntry("assistant", ErrorMessage)>>
                /\ turn' = [NoTurn("error") EXCEPT
                               !.user_input = user_input,
                               !.ctx = short_ctx,
                               !.has_prev = has_prev(short_ctx),
                               !.followup = followup,
                               !.state = initial_state(user_input, short_ctx,
                                                       followup)]
                /\ UNCHANGED <<short_ctx, last_followup_options>>
           ELSE /\ \E result \in {query(user_input, short_ctx, followup, rk,
                                         base_top_k)} :
                      update_ctx(user_input, followup, result)
                /\ last_followup_options' = options
                /\ messages' = messages
                       \o <<HistoryEntry("user", original_input),
                            HistoryEntry("assistant", "answer")>>
    /\ ranking' = rk
    /\ UNCHANGED <<base_top_k, rstate, rout, ref_docs, references, session,
                   graph_state, pc>>

InitChat ==
    /\ base_top_k \in RetrievalTopKs
    /\ short_ctx = EmptyCtx
    /\ turn = NoTurn("none")
    /\ ranking = <<>>
    /\ rstate = GraphState(<<>>, <<>>, None, None, None)
    /\ rout = NoOut
    /\ ref_docs = <<>>
    /\ references = NoReferences
    /\ session = [s \in Sessions |-> NoCall]
    /\ graph_state = [s \in Sessions |-> NoGraphState]
    /\ messages = <<>>
    /\ last_followup_options = <<>>
    /\ pc = "session"

NextChat ==
    \/ \E original_input \in ChatInputs, rk \in ChatRankings,
          options \in ResponseOptions, raises \in BOOLEAN :
          ProcessPrompt(original_input, rk, options, raises)
    \/ ClearChat

SpecChat == InitChat /\ [][NextChat]_vars

(***************************************************************************)
(* Retrieval on its own: one retrieve call on a drawn GraphState and index *)
(***************************************************************************)
RetrieveQuestions == {MsgShift, MsgTwoParts}

LockInputs ==
    {[brand |-> None, type |-> None, title |-> None],
     [brand |-> "Metos", type |-> "Coffee_Maker", title |-> "Coffee Maker Manual"],
     [brand |-> "Metos", type |-> None, title |-> None],
     [brand |-> None, type |-> "Oven", title |-> None]}

\* short rankings meet every question and lock; long rankings, which only
\* the vote tells apart, meet the unlocked single-part question
InitRetrieve ==
    /\ base_top_k \in RetrievalTopKs
    /\ short_ctx = EmptyCtx
    /\ turn = NoTurn("none")
    /\ rout = NoOut
    /\ ref_docs = <<>>
    /\ references = NoReferences
    /\ session = [s \in Sessions |-> NoCall]
    /\ graph_state = [s \in Sessions |-> NoGraphState]
    /\ messages = <<>>
    /\ last_followup_options = <<>>
    /\ pc = "start"
    /\ \E n \in 0..MaxPoolLen :
         \E D \in MinorityPlacements(n), m \in ChunkKinds, k \in ChunkKinds :
            /\ ranking = Pool(n, D, m, k)
            /\ \/ /\ n <= MaxLockedPool
                  /\ rstate \in {GraphState(q, q, l.brand, l.type, l.title) :
                                    q \in RetrieveQuestions, l \in LockInputs}
               \/ /\ n > MaxLockedPool
                  /\ rstate = GraphState(MsgShift, MsgShift, None, None, None)

RunRetrieve ==
    /\ pc = "start"
    /\ rout' = retrieve(rstate, ranking, base_top_k)
    /\ pc' = "done"
    /\ UNCHANGED <<base_top_k, short_ctx, turn, ranking, rstate, ref_docs,
                   references, session, graph_state,
                   messages, last_followup_options>>

NextRetrieve == RunRetrieve

SpecRetrieve == InitRetrieve /\ [][NextRetrieve]_vars

(***************************************************************************)
(* Reference formatting on its own: _generate_references on a drawn        *)
(* document list                                                           *)
(***************************************************************************)
RefDoc(ti, page) == [title |-> ti, page_number |-> page]

\* the pages of the set, ascending
PagesUp(pages) == SortedPages(pages)

PagesDown(pages) ==
    [i \in 1..Cardinality(pages) |->
        SortedPages(pages)[Cardinality(pages) + 1 - i]]

\* documents of one manual citing the given pages in the given order, with
\* the document at place other (if any) taken from another source and the
\* document at place bare (if any) stored without a page number
RefDocs(pages, other, other_title, bare) ==
    [i \in 1..Len(pages) |->
        RefDoc(IF i = other THEN other_title ELSE "Coffee Maker Manual",
               IF i = bare THEN NoPage ELSE pages[i])]

InitReferences ==
    /\ base_top_k \in RetrievalTopKs
    /\ short_ctx = EmptyCtx
    /\ turn = NoTurn("none")
    /\ ranking = <<>>
    /\ rstate = GraphState(<<>>, <<>>, None, None, None)
    /\ rout = NoOut
    /\ references = NoReferences
    /\ session = [s \in Sessions |-> NoCall]
    /\ graph_state = [s \in Sessions |-> NoGraphState]
    /\ messages = <<>>
    /\ last_followup_options = <<>>
    /\ pc = "documents"
    /\ \E S \in SUBSET (1..MaxPage) :
          /\ Cardinality(S) <= MaxRefDocs
          /\ \E pages \in {PagesUp(S), PagesDown(S),
                           PagesUp(S) \o Take(PagesUp(S), 1)} :
               \E other \in 0..Len(pages), bare \in 0..Len(pages),
                  other_title \in {"Vulcan Installation & Operation Manual", ""} :
                   ref_docs = RefDocs(pages, other, other_title, bare)

RunReferences ==
    /\ pc = "documents"
    /\ references' = _generate_references(ref_docs)
    /\ pc' = "referenced"
    /\ UNCHANGED <<base_top_k, short_ctx, turn, ranking, rstate, rout, ref_docs,
                   session, graph_state,
                   messages, last_followup_options>>

NextReferences == RunReferences

SpecReferences == InitReferences /\ [][NextReferences]_vars

(***************************************************************************)
(* The engine on its own: query calls of two sessions on one engine, each  *)
(* call running the compiled workflow node by node                         *)
(***************************************************************************)
\* the context left by a turn that resolved the Metos coffee maker
CtxMetos ==
    [last_question |-> MsgDescaleMetos, last_answer |-> "answer",
     last_manual_title |-> "Coffee Maker Manual",
     last_equipment_type |-> "Coffee_Maker", last_brand |-> "Metos"]

\* the context left by a turn that found nothing
CtxAsked ==
    [last_question |-> MsgVulcanOven, last_answer |-> "answer",
     last_manual_title |-> "", last_equipment_type |-> "", last_brand |-> ""]

\* contexts handed to query whose last question is padded with white space,
\* or is white space only
CtxPadded ==
    [last_question |-> <<" ">> \o MsgVulcanOven \o <<" ">>,
     last_answer |-> "answer", last_manual_title |-> "",
     last_equipment_type |-> "", last_brand |-> ""]

CtxBlank ==
    [last_question |-> <<" ">>, last_answer |-> "answer",
     last_manual_title |-> "", last_equipment_type |-> "", last_brand |-> ""]

QueryCall(question, ctx, is_followup) ==
    [question |-> question, short_ctx |-> ctx, is_followup |-> is_followup]

\* the calls the sessions make: a first question, a message no follow-up rule
\* matches, a follow-up under a recorded lock, a follow-up whose lock is
\* inferred from the prior question, a follow-up flag without a context, and
\* follow-ups on a padded and on a blank prior question
EngineCalls ==
    {QueryCall(MsgTwoParts, EmptyCtx, FALSE),
     QueryCall(MsgShift, CtxMetos, FALSE),
     QueryCall(MsgAffirm, CtxMetos, TRUE),
     QueryCall(MsgTwoParts, CtxAsked, TRUE),
     QueryCall(MsgAffirm, EmptyCtx, TRUE),
     QueryCall(MsgAffirm, CtxPadded, TRUE),
     QueryCall(MsgAffirm, CtxBlank, TRUE)}

\* the GraphStates the calls start from
EngineStates ==
    {initial_state(c.question, c.short_ctx, c.is_followup) : c \in EngineCalls}

\* retrieve depends on the GraphState, the index and the settings alone: it
\* is tabulated once over the GraphStates of the calls
Retrieved ==
    [state \in EngineStates |->
        [rk \in ConvRankings |->
            [base \in RetrievalTopKs |-> retrieve(state, rk, base)]]]

\* result = self.workflow.invoke(initial_state): the call enters the graph
Invoke(s, question, ctx, is_followup) ==
    /\ pc = "engine"
    /\ session[s].pc \in {"idle", "returned"}
    /\ session' = [session EXCEPT ![s] =
          [pc |-> entry_point, question |-> question, short_ctx |-> ctx,
           given_ctx |-> ctx, is_followup |-> is_followup,
           retrieve_runs |-> 0, generate_runs |-> 0, result |-> NoResult]]
    /\ graph_state' = [graph_state EXCEPT ![Frame(s)] =
          [state |-> initial_state(question, ctx, is_followup),
           out |-> NoOut, generation |-> NoGeneration]]
    /\ UNCHANGED <<base_top_k, short_ctx, turn, ranking, rstate, rout, ref_docs,
                   references, pc,
                   messages, last_followup_options>>

RetrieveNode(s) ==
    /\ pc = "engine"
    /\ session[s].pc = "retrieve"
    /\ graph_state' = [graph_state EXCEPT ![Frame(s)].out =
          Retrieved[graph_state[Frame(s)].state][ranking][base_top_k]]
    /\ session' = [session EXCEPT ![s].pc = edges.retrieve,
                                  ![s].retrieve_runs = @ + 1]
    /\ UNCHANGED <<base_top_k, short_ctx, turn, ranking, rstate, rout, ref_docs,
                   references, pc,
                   messages, last_followup_options>>

GenerateNode(s) ==
    /\ pc = "engine"
    /\ session[s].pc = "generate"
    /\ graph_state' = [graph_state EXCEPT ![Frame(s)].generation =
          generate_answer(graph_state[Frame(s)].state,
                          graph_state[Frame(s)].out.documents)]
    /\ session' = [session EXCEPT ![s].pc = edges.generate,
                                  ![s].generate_runs = @ + 1]
    /\ UNCHANGED <<base_top_k, short_ctx, turn, ranking, rstate, rout, ref_docs,
                   references, pc,
                   messages, last_followup_options>>

\* the graph has reached END: query builds the dict it returns
ReturnResult(s) ==
    /\ pc = "engine"
    /\ session[s].pc = "END"
    /\ session' = [session EXCEPT ![s].pc = "returned", ![s].result =
          [question |-> session[s].question,
           answer |-> graph_state[Frame(s)].generation,
           documents |-> graph_state[Frame(s)].out.documents,
           retries |-> 0,
           primary_manual_title |->
               graph_state[Frame(s)].out.primary_manual_title,
           primary_equipment_type |->
               graph_state[Frame(s)].out.primary_equipment_type,
           primary_equipment_brand |->
               graph_state[Frame(s)].out.primary_equipment_brand]]
    /\ UNCHANGED <<base_top_k, short_ctx, turn, ranking, rstate, rout, ref_docs,
                   references, graph_state, pc,
                   messages, last_followup_options>>

InitEngine ==
    /\ base_top_k \in RetrievalTopKs
    /\ short_ctx = EmptyCtx
    /\ turn = NoTurn("none")
    /\ ranking \in ConvRankings
    /\ rstate = GraphState(<<>>, <<>>, None, None, None)
    /\ rout = NoOut
    /\ ref_docs = <<>>
    /\ references = NoReferences
    /\ session = [s \in Sessions |-> NoCall]
    /\ graph_state = [s \in Sessions |-> NoGraphState]
    /\ messages = <<>>
    /\ last_followup_options = <<>>
    /\ pc = "engine"

\* the steps a call takes once it has been made
RunCall(s) == RetrieveNode(s) \/ GenerateNode(s) \/ ReturnResult(s)

NextEngine ==
    \/ \E s \in Sessions, c \in EngineCalls :
          Invoke(s, c.question, c.short_ctx, c.is_followup)
    \/ \E s \in Sessions : RetrieveNode(s)
    \/ \E s \in Sessions : GenerateNode(s)
    \/ \E s \in Sessions : ReturnResult(s)

SpecEngine == InitEngine /\ [][NextEngine]_vars

\* workflow.invoke runs synchronously: a call that was made keeps running
SpecEngineFair ==
    InitEngine /\ [][NextEngine]_vars /\ \A s \in Sessions : WF_vars(RunCall(s))

(***************************************************************************)
(* Properties                                                              *)
(***************************************************************************)
\* the scaled result count of a question with k question marks
ExpectedTopK(k, base) == IF k > 1 THEN k * base ELSE base

\* the lock a turn handed to retrieve / the lock a turn resolved
SuppliedLock(t) ==
    <<t.state.locked_brand, t.state.locked_type, t.state.locked_title>>

ResolvedLock(t) ==
    <<t.out.locked_brand, t.out.locked_type, t.out.locked_title>>

ClearWinner(o) ==
    o.voted /\ o.votes.total_votes > 0
            /\ 10 * o.votes.winner_votes >= 6 * o.votes.total_votes

\* the message names a brand or an equipment type other than the given ones
NamesOtherEquipment(text, brand, etype) ==
    \/ \E b \in BrandsNamed(text) : b # brand
    \/ \E t \in TypesNamed(text) : t # etype

\* C1: if turn n was an unlocked retrieval with a clear voting winner and so
\* set the lock, the lock supplied to the retrieval of turn n+1 equals that
\* lock in all three fields, unless the message of turn n+1 names a different
\* brand or equipment type or the context was cleared in between.
C1_LockPropagates ==
    [][(/\ turn.kind = "turn"
        /\ ClearWinner(turn.out)
        /\ turn'.kind = "turn"
        /\ turn'.ctx = short_ctx
        /\ ~NamesOtherEquipment(turn'.user_input, turn.out.locked_brand,
                                turn.out.locked_type))
       => SuppliedLock(turn') = ResolvedLock(turn)]_vars

\* C2: with lock.brand or lock.type set, retrieve issues exactly one search
\* call, carrying the locked brand and type as filters and the scaled top_k,
\* and runs neither the unfiltered stage-1 search nor the vote.
C2_LockedPathOneSearch ==
    (pc = "done" /\ (Truthy(rstate.locked_brand) \/ Truthy(rstate.locked_type)))
    => /\ Len(rout.calls) = 1
       /\ rout.calls[1].equipment_brand = rstate.locked_brand
       /\ rout.calls[1].equipment_type = rstate.locked_type
       /\ rout.calls[1].top_k =
              ExpectedTopK(CountQ(rstate.rewritten_question), base_top_k)
       /\ ~rout.voted
       /\ rout.all_results = <<>>

W_C2 ==
    /\ pc = "done"
    /\ rstate.locked_brand = "Metos" /\ rstate.locked_type = None
    /\ CountQ(rstate.rewritten_question) = 2
    /\ Len(rout.calls) = 1
    /\ rout.documents # <<>>

\* C3: with a recorded prior question and lock.brand = "Metos", the message
\* "does it need cleaning after every shift?" is retrieved with the locked
\* filter directly: no unfiltered stage-1 search and no vote in that turn.
C3_ShiftMessageUsesLock ==
    (/\ turn.kind = "turn"
     /\ turn.ctx.last_question # <<>>
     /\ turn.ctx.last_brand = "Metos"
     /\ turn.user_input = MsgShift)
    => /\ ~turn.out.voted
       /\ Len(turn.out.calls) = 1
       /\ turn.out.calls[1].equipment_brand = "Metos"

\* C4: on the unlocked path, dominance >= 0.6 gives a second search with the
\* detected type and brand and the scaled top_k, whose result is what is
\* returned; otherwise there is no second search and the first top_k passages
\* of the stage-1 pool are returned in their order.
C4_Stage3Decision ==
    (pc = "done" /\ rout.voted)
    => LET top_k == ExpectedTopK(CountQ(rstate.rewritten_question), base_top_k)
           v == rout.votes
       IN  IF v.total_votes > 0 /\ 10 * v.winner_votes >= 6 * v.total_votes
           THEN /\ Len(rout.calls) = 2
                /\ rout.calls[2].equipment_type = v.detected_type
                /\ rout.calls[2].equipment_brand = v.detected_brand
                /\ rout.calls[2].top_k = top_k
                /\ rout.documents =
                       search(ranking, top_k, v.detected_brand, v.detected_type)
           ELSE /\ Len(rout.calls) = 1
                /\ rout.documents = SubSeq(rout.all_results, 1,
                                           Min(top_k, Len(rout.all_results)))

\* a pool of five in which the winner holds exactly 0.6 of the votes
W_C4 ==
    /\ pc = "done" /\ rout.voted
    /\ Len(rout.all_results) = 5
    /\ 10 * rout.votes.winner_votes = 6 * rout.votes.total_votes
    /\ Len(rout.calls) = 2
    /\ Len(rout.documents) = 2

\* reference tally: the weight 12 - r of the ranks r < 12 whose label is l
RefLabel(d, field) ==
    IF field = "type" THEN d.equipment_type ELSE d.equipment_brand

RECURSIVE RefSum(_)
RefSum(ranks) ==
    IF ranks = {} THEN 0
    ELSE LET r == CHOOSE x \in ranks : TRUE
         IN  (12 - r) + RefSum(ranks \ {r})

RefRanks(pool, field, l) ==
    {r \in 0..11 : r < Len(pool) /\ RefLabel(pool[r + 1], field) = l}

RefLabelledRanks(pool, field) ==
    {r \in 0..11 : r < Len(pool) /\ RefLabel(pool[r + 1], field) \notin {"", None}}

RefWeight(pool, field, l) == RefSum(RefRanks(pool, field, l))

\* the types that label exactly nine of the twelve top-ranked passages
NineOfTwelve(pool) ==
    {T \in {pool[i].equipment_type : i \in 1..Len(pool)} \ {""} :
        Len(pool) >= 12 /\ Cardinality(RefRanks(pool, "type", T)) = 9}

C6_TopKScalesWithUserQuestion ==
    turn.kind = "turn"
    => LET top_k == ExpectedTopK(CountQ(turn.user_input), base_top_k)
           calls == turn.out.calls
       IN  IF turn.out.voted
           THEN /\ calls[1].top_k = Max(2 * top_k, 16)
                /\ \A i \in 2..Len(calls) : calls[i].top_k = top_k
           ELSE \A i \in 1..Len(calls) : calls[i].top_k = top_k

\* no passage of the pool carries an equipment-type label
NoTypeLabel(pool) == \A i \in 1..Len(pool) : pool[i].equipment_type \in {"", None}

C8_UnanimousTopTwelve ==
    (pc = "done" /\ rout.voted /\ rout.all_results # <<>>)
    => \A T \in {"Coffee_Maker", "Oven"} :
          (\A i \in 1..Len(rout.all_results) :
              i <= 12 => rout.all_results[i].equipment_type = T)
          => /\ rout.votes.detected_type = T
             /\ rout.votes.total_votes > 0
             /\ rout.votes.winner_votes = rout.votes.total_votes

\* fourteen passages: twelve of one type, then two of another type and brand
W_C8 ==
    /\ pc = "done" /\ rout.voted
    /\ Len(rout.all_results) = 14
    /\ \A i \in 1..12 : rout.all_results[i].equipment_type = "Coffee_Maker"
    /\ \A i \in 13..14 : /\ rout.all_results[i].equipment_type = "Oven"
                         /\ rout.all_results[i].equipment_brand = "Vulcan"
    /\ rout.votes.detected_type = "Coffee_Maker"
    /\ rout.votes.winner_votes = rout.votes.total_votes

\* C9: with a recorded prior question, a message that names a brand different
\* from prior_context.last_brand is never classified as a follow-up, whatever
\* its length, whether or not last_brand is empty, and whatever other brand
\* or type keywords it contains.
C9_OtherBrandIsNewTopic ==
    (/\ turn.kind = "turn"
     /\ turn.ctx.last_question # <<>>
     /\ \E b \in BrandsNamed(turn.user_input) : b # turn.ctx.last_brand)
    => ~turn.followup

\* C10: with a recorded prior question, whatever the brand, type and title of
\* the context, a message of at most 6 words that names no brand and no
\* equipment type is classified as a follow-up.
C10_ShortPlainMessageFollowsUp ==
    (/\ turn.kind = "turn"
     /\ turn.ctx.last_question # <<>>
     /\ Len(turn.user_input) - CountQ(turn.user_input) <= 6
     /\ BrandsNamed(turn.user_input) = {}
     /\ TypesNamed(turn.user_input) = {})
    => turn.followup

\* "yes that worked" after a turn that resolved brand and type
W_C10 ==
    /\ turn.kind = "turn"
    /\ turn.ctx.last_question # <<>>
    /\ turn.ctx.last_brand = "Vulcan"
    /\ turn.user_input = MsgAffirm
    /\ turn.followup
    /\ ~turn.out.voted

\* the distinct pages the first five passages give a title
CitedPages(docs, ti) ==
    {docs[i].page_number :
        i \in {j \in 1..Len(docs) :
                  j <= 5 /\ docs[j].title = ti /\ docs[j].page_number >= 1}}

PartsOf(refs, ti) ==
    {i \in 1..Len(refs.parts) : refs.parts[i].title = ti}

\* C11: a title to which the cited passages give exactly 5 distinct pages,
\* consecutive or not, is rendered with the comma-separated list of all 5
\* pages in ascending order, never as a range and never with "and K more".
C11_FivePagesCommaList ==
    pc = "referenced"
    => \A ti \in {"Coffee Maker Manual", "Vulcan Installation & Operation Manual"} :
          Cardinality(CitedPages(ref_docs, ti)) = 5
          => /\ Cardinality(PartsOf(references, ti)) = 1
             /\ \A i \in PartsOf(references, ti) :
                   LET r == references.parts[i].page_ref
                   IN  /\ r.form = "Pages list"
                       /\ r.more = 0
                       /\ Len(r.pages) = 5
                       /\ {r.pages[k] : k \in 1..5} = CitedPages(ref_docs, ti)
                       /\ \A k \in 1..4 : r.pages[k] < r.pages[k + 1]

\* six passages of one manual on six consecutive pages: the first five are
\* cited and listed
W_C11 ==
    /\ pc = "referenced"
    /\ Len(ref_docs) = 6
    /\ \A i \in 1..6 : ref_docs[i] = RefDoc("Coffee Maker Manual", i)
    /\ references.heading = "Reference"
    /\ references.parts[1].page_ref =
           [form |-> "Pages list", pages |-> <<1, 2, 3, 4, 5>>, more |-> 0]

\* the lock fields and the primary fields a retrieve call returned
ReturnedLock(o) == <<o.locked_brand, o.locked_type, o.locked_title>>

ReturnedPrimary(o) ==
    <<o.primary_equipment_brand, o.primary_equipment_type, o.primary_manual_title>>

\* C12 (as stated): when the search returns nothing at every stage, with or
\* without a lock supplied, retrieve returns no passages and a resolved lock
\* whose brand, type and title are all None.
C12_EmptyIndexClearsLock ==
    (pc = "done" /\ ranking = <<>>)
    => /\ rout.documents = <<>>
       /\ ReturnedLock(rout) = <<None, None, None>>
       /\ ReturnedPrimary(rout) = <<None, None, None>>

\* C12 (amended): when the search returns nothing at every stage retrieve
\* returns no passages and a primary title of None; without a lock supplied
\* the resolved brand, type and title are all None; with a lock supplied the
\* lock is returned as supplied and the resolved brand and type are the
\* supplied ones.
C12_EmptyIndexKeepsSuppliedLock ==
    (pc = "done" /\ ranking = <<>>)
    => /\ rout.documents = <<>>
       /\ rout.primary_manual_title = None
       /\ IF Truthy(rstate.locked_brand) \/ Truthy(rstate.locked_type)
          THEN /\ ReturnedLock(rout) = <<rstate.locked_brand, rstate.locked_type,
                                         rstate.locked_title>>
               /\ rout.primary_equipment_brand = rstate.locked_brand
               /\ rout.primary_equipment_type = rstate.locked_type
               /\ Len(rout.calls) = 1
          ELSE /\ ReturnedLock(rout) = <<None, None, None>>
               /\ ReturnedPrimary(rout) = <<None, None, None>>
               /\ Len(rout.calls) = 1
               /\ rout.votes.total_votes = 0

\* an empty index searched under the lock (Metos, Coffee_Maker, Coffee Maker
\* Manual): nothing is returned and the lock stays
W_C12 ==
    /\ pc = "done"
    /\ ranking = <<>>
    /\ rstate.locked_brand = "Metos" /\ rstate.locked_type = "Coffee_Maker"
    /\ rout.documents = <<>>
    /\ ReturnedLock(rout) = <<"Metos", "Coffee_Maker", "Coffee Maker Manual">>
    /\ rout.primary_manual_title = None

\* C13: every query call that enters the workflow eventually returns a result
\* to its caller, having run retrieve and generate once each, whatever the
\* question, the context and the outcome of the searches (an empty index and
\* a dominance below the threshold included).
C13_QueryCompletes ==
    \A s \in Sessions :
        (session[s].pc = "retrieve")
        ~> (/\ session[s].pc = "returned"
            /\ session[s].retrieve_runs = 1
            /\ session[s].generate_runs = 1
            /\ session[s].result.answer.answer = "answer")

\* a call on an empty index has returned: no passages, no references
W_C13 ==
    /\ pc = "engine"
    /\ ranking = <<>>
    /\ \E s \in Sessions :
          /\ session[s].pc = "returned"
          /\ session[s].retrieve_runs = 1
          /\ session[s].generate_runs = 1
          /\ session[s].result.documents = <<>>
          /\ session[s].result.answer.answer = "answer"
          /\ session[s].result.answer.references = NoReferences

\* C14: a query call leaves the prior context it was given as it is, and at
\* every point of a call, however the calls of the two sessions interleave
\* and whatever calls came before, its lock, retrieval query, search requests
\* and result are those determined by its own question, context and
\* follow-up flag and by the index.
C14_CallsAreIndependent ==
    pc = "engine"
    => \A s \in Sessions :
          LET c == session[s]
              own == query(c.question, c.given_ctx, c.is_followup, ranking,
                           base_top_k)
          IN  /\ c.short_ctx = c.given_ctx
              /\ c.pc \in {"retrieve", "generate", "END"}
                    => graph_state[s].state = own.state
              /\ c.pc \in {"generate", "END"}
                    => graph_state[s].out = own.out
              /\ c.pc = "returned"
                    => /\ c.result.documents = own.out.documents
                       /\ c.result.primary_manual_title =
                              own.out.primary_manual_title
                       /\ c.result.primary_equipment_type =
                              own.out.primary_equipment_type
                       /\ c.result.primary_equipment_brand =
                              own.out.primary_equipment_brand
                       /\ c.result.question = c.question

\* both sessions are inside a call at once, under different locks
W_C14 ==
    /\ pc = "engine"
    /\ session[1].pc = "generate"
    /\ session[2].pc = "retrieve"
    /\ graph_state[1].state.locked_brand = "Metos"
    /\ graph_state[2].state.locked_brand = "Vulcan"
    /\ Len(graph_state[1].out.calls) = 1
    /\ graph_state[1].out.calls[1].equipment_brand = "Metos"

\* C15: a message processed while no prior question is recorded (the first
\* message of the conversation, and the first message after the context was
\* cleared) is classified as not a follow-up whatever its text, and its
\* retrieval gets brand, type and title locks of None and runs the unlocked
\* voting path.
C15_NoPriorQuestionNoFollowup ==
    [][(/\ turn'.kind = "turn"
        /\ \/ turn'.ctx.last_question = <<>>
           \/ turn.kind \in {"none", "clear"})
       => /\ ~turn'.followup
          /\ turn'.ctx = EmptyCtx
          /\ SuppliedLock(turn') = <<None, None, None>>
          /\ turn'.state.rewritten_question = turn'.user_input
          /\ turn'.out.voted
          /\ turn'.out.calls[1].equipment_brand = None
          /\ turn'.out.calls[1].equipment_type = None]_vars

\* "yes that worked" typed into an empty context is retrieved by the vote
W_C15 ==
    /\ turn.kind = "turn"
    /\ turn.ctx = EmptyCtx
    /\ turn.user_input = MsgAffirm
    /\ ~turn.followup
    /\ turn.out.voted
    /\ turn.out.votes.detected_type = "Coffee_Maker"
    /\ SuppliedLock(turn) = <<None, None, None>>

\* the label all the passages carry in a field, if they carry one and the same
AllCarry(docs, field, l) ==
    /\ docs # <<>>
    /\ l \notin {"", None}
    /\ \A i \in 1..Len(docs) : RefLabel(docs[i], field) = l

\* the same label, or no label on either side (None or the empty string)
SameLabel(x, y) == x = y \/ (x \in {"", None} /\ y \in {"", None})

NoneCarries(docs, field) ==
    \A i \in 1..Len(docs) : RefLabel(docs[i], field) \in {"", None}

\* C16: on the locked path the resolved type and brand are the ones carried
\* by the returned passages; the type and brand of the lock are used only
\* when the returned passages carry no such label.
C16_LockedPrimaryFromPassages ==
    (pc = "done" /\ (Truthy(rstate.locked_brand) \/ Truthy(rstate.locked_type)))
    => /\ \A T \in {"Coffee_Maker", "Oven"} :
             AllCarry(rout.documents, "type", T)
             => rout.primary_equipment_type = T
       /\ \A B \in {"Metos", "Vulcan"} :
             AllCarry(rout.documents, "brand", B)
             => rout.primary_equipment_brand = B
       /\ NoneCarries(rout.documents, "type")
             => SameLabel(rout.primary_equipment_type, rstate.locked_type)
       /\ NoneCarries(rout.documents, "brand")
             => SameLabel(rout.primary_equipment_brand, rstate.locked_brand)

\* reference resolution of the primary title of a passage set: the number of
\* passages of a title and the highest score among them
RefCount(docs, ti) == Cardinality({i \in 1..Len(docs) : docs[i].title = ti})

RefTop(docs, ti) ==
    CHOOSE x \in {docs[i].score : i \in {j \in 1..Len(docs) : docs[j].title = ti}} :
        \A i \in 1..Len(docs) : docs[i].title = ti => docs[i].score <= x

RefBestTitles(docs) ==
    {a \in {docs[i].title : i \in 1..Len(docs)} :
        \A i \in 1..Len(docs) :
            LET b == docs[i].title
            IN  \/ RefCount(docs, a) > RefCount(docs, b)
                \/ /\ RefCount(docs, a) = RefCount(docs, b)
                   /\ RefTop(docs, a) >= RefTop(docs, b)}

\* C17: on the unlocked path the resolved title is the title with the most
\* passages in the returned set (ties going to the higher maximum score), the
\* resolved type and brand are those carried by a passage of that title in
\* the returned set, and the three are returned as the lock for the next turn.
C17_UnlockedPrimaryFromFinalSet ==
    (pc = "done" /\ rout.voted /\ rout.documents # <<>>)
    => /\ rout.primary_manual_title \in RefBestTitles(rout.documents)
       /\ \E i \in 1..Len(rout.documents) :
             /\ rout.documents[i].title = rout.primary_manual_title
             /\ SameLabel(rout.documents[i].equipment_type,
                          rout.primary_equipment_type)
             /\ SameLabel(rout.documents[i].equipment_brand,
                          rout.primary_equipment_brand)
       /\ ReturnedLock(rout) =
              <<rout.primary_equipment_brand, rout.primary_equipment_type,
                rout.primary_manual_title>>

\* the first rank at which a label occurs among the first 12 passages
RefFirstRank(pool, field, l) ==
    CHOOSE r \in RefRanks(pool, field, l) :
        \A q \in RefRanks(pool, field, l) : r <= q

\* the winner of the reference tally: None without labelled passages,
\* otherwise the label of highest weight, the first seen among equals
RefWinner(pool, field, w) ==
    IF RefLabelledRanks(pool, field) = {}
    THEN w = None
    ELSE /\ RefRanks(pool, field, w) # {}
         /\ w \notin {"", None}
         /\ \A o \in {RefLabel(pool[r + 1], field) :
                           r \in RefLabelledRanks(pool, field)} \ {w} :
               \/ RefWeight(pool, field, w) > RefWeight(pool, field, o)
               \/ /\ RefWeight(pool, field, w) = RefWeight(pool, field, o)
                  /\ RefFirstRank(pool, field, w) < RefFirstRank(pool, field, o)

\* C18: the vote over a passage sequence equals the reference tally: only the
\* first 12 passages count, the passage at 0-indexed rank r adds 12 - r to its
\* type label and independently to its brand label, absent labels add
\* nothing, the winner is the label of highest weight (the first seen in rank
\* order among equals), and the dominance is the winner's weight over the
\* total weight of the type-labelled passages.
C18_VoteEqualsReference ==
    (pc = "done" /\ rout.voted)
    => /\ RefWinner(rout.all_results, "type", rout.votes.detected_type)
       /\ RefWinner(rout.all_results, "brand", rout.votes.detected_brand)
       /\ rout.votes.total_votes =
              RefSum(RefLabelledRanks(rout.all_results, "type"))
       /\ rout.votes.winner_votes =
              IF rout.votes.detected_type = None THEN 0
              ELSE RefWeight(rout.all_results, "type", rout.votes.detected_type)

\* four passages, the first and the last of one type and the two between of
\* another: 21 votes each, the type seen first wins
W_C18 ==
    /\ pc = "done" /\ rout.voted
    /\ Len(rout.all_results) = 4
    /\ rout.all_results[1].equipment_type = "Oven"
    /\ rout.all_results[2].equipment_type = "Coffee_Maker"
    /\ rout.all_results[3].equipment_type = "Coffee_Maker"
    /\ rout.all_results[4].equipment_type = "Oven"
    /\ rout.votes.detected_type = "Oven"
    /\ rout.votes.winner_votes = 21
    /\ rout.votes.total_votes = 42

\* C19: on the unlocked path the first search call is unfiltered (no brand
\* and no type filter), carries the retrieval query and asks for
\* max(2 x top_k, 16) results, top_k being the base count scaled by the
\* number of question marks of the retrieval query.
C19_Stage1Unfiltered ==
    (pc = "done" /\ Falsy(rstate.locked_brand) /\ Falsy(rstate.locked_type))
    => LET k == CountQ(rstate.rewritten_question)
           top_k == IF k > 1 THEN k * base_top_k ELSE base_top_k
       IN  /\ rout.voted
           /\ Len(rout.calls) >= 1
           /\ rout.calls[1].equipment_brand = None
           /\ rout.calls[1].equipment_type = None
           /\ rout.calls[1].query = rstate.rewritten_question
           /\ rout.calls[1].top_k = IF 2 * top_k >= 16 THEN 2 * top_k ELSE 16
           /\ Len(rout.all_results) <= rout.calls[1].top_k

\* a two-part question with a base count of 2: top_k is 4 and stage 1 asks
\* for 16
W_C19 ==
    /\ pc = "done" /\ rout.voted
    /\ base_top_k = 2
    /\ CountQ(rstate.rewritten_question) = 2
    /\ rout.calls[1].top_k = 16
    /\ rout.calls[1].equipment_type = None
    /\ Len(rout.all_results) = 3
    /\ Len(rout.calls) = 2
    /\ rout.calls[2].top_k = 4

\* the text without the white space at its ends
Unpadded(text) ==
    LET solid == {i \in 1..Len(text) : text[i] # " "}
    IN  IF solid = {} THEN <<>>
        ELSE SubSeq(text, CHOOSE i \in solid : \A j \in solid : i <= j,
                          CHOOSE i \in solid : \A j \in solid : i >= j)

\* C20 (as stated): for a follow-up whose prior question is non-empty the
\* query sent to retrieval is the prior question text, a newline,
\* "Follow-up: " and the new message; otherwise it is the message unchanged.
C20_FollowupQueryPrefixed ==
    pc = "engine"
    => \A s \in Sessions :
          session[s].pc \in {"retrieve", "generate", "END"}
          => graph_state[s].state.rewritten_question =
                 IF session[s].is_followup
                    /\ session[s].given_ctx.last_question # <<>>
                 THEN session[s].given_ctx.last_question
                      \o <<"\n", "Follow-up:">> \o session[s].question
                 ELSE session[s].question

\* C20 (amended): for a follow-up whose prior question, stripped of the white
\* space at its ends, is non-empty the query sent to retrieval is the
\* stripped prior question, a newline, "Follow-up: " and the new message; for
\* a follow-up on a blank prior question and for a turn that is not a
\* follow-up it is the message unchanged; retrieve searches with that query.
C20_FollowupQueryStripped ==
    pc = "engine"
    => \A s \in Sessions :
          LET prior == Unpadded(session[s].given_ctx.last_question)
              expected == IF session[s].is_followup /\ prior # <<>>
                          THEN prior \o <<"\n", "Follow-up:">> \o session[s].question
                          ELSE session[s].question
          IN  /\ session[s].pc \in {"retrieve", "generate", "END"}
                 => /\ graph_state[s].state.rewritten_question = expected
                    /\ graph_state[s].state.question = session[s].question
              /\ session[s].pc \in {"generate", "END"}
                 => \A i \in 1..Len(graph_state[s].out.calls) :
                       graph_state[s].out.calls[i].query = expected

\* a follow-up on a padded prior question has been retrieved with the
\* stripped prior question in front of the message
W_C20 ==
    /\ pc = "engine"
    /\ session[1].pc = "generate"
    /\ session[1].is_followup
    /\ session[1].given_ctx = CtxPadded
    /\ graph_state[1].state.rewritten_question =
           MsgVulcanOven \o <<"\n", "Follow-up:">> \o MsgAffirm
    /\ graph_state[1].out.calls[1].query =
           graph_state[1].state.rewritten_question

\* the lock query computes from a prior context for a follow-up
ExpectedBrand(ctx) ==
    IF Truthy(ctx.last_brand) THEN ctx.last_brand
    ELSE FirstBrand(LowerText(ctx.last_question), brand_keywords)

ExpectedType(ctx) ==
    IF Truthy(ctx.last_equipment_type) THEN ctx.last_equipment_type
    ELSE IF Truthy(ExpectedBrand(ctx)) THEN brand_to_type(ExpectedBrand(ctx))
    ELSE None

\* C21: for a follow-up turn the lock given to retrieval is the prior
\* context's brand, type and title; a missing brand is the first match of the
\* brand-keyword table in the prior question, a type still missing is the
\* brand-to-type entry of that brand; for a turn that is not a follow-up all
\* three lock fields are None whatever the prior context holds.
C21_FollowupLockFromContext ==
    turn.kind = "turn"
    => IF turn.followup
       THEN SuppliedLock(turn) =
                <<ExpectedBrand(turn.ctx), ExpectedType(turn.ctx),
                  Or(turn.ctx.last_manual_title, None)>>
       ELSE SuppliedLock(turn) = <<None, None, None>>

W_C21 ==
    /\ turn.kind = "turn"
    /\ turn.followup
    /\ Falsy(turn.ctx.last_brand)
    /\ Falsy(turn.ctx.last_equipment_type)
    /\ turn.state.locked_brand = "Vulcan"
    /\ turn.state.locked_type = "Oven"

\* the message names a brand or an equipment-type keyword
NamesEquipment(text) == BrandsNamed(text) # {} \/ TypesNamed(text) # {}

\* C22: with a prior question recorded and neither a brand nor an equipment
\* type in the prior context, every message that names a brand or an
\* equipment-type keyword is not a follow-up, short messages included.
C22_FirstMentionIsNewTopic ==
    (/\ turn.kind = "turn"
     /\ turn.ctx.last_question # <<>>
     /\ Falsy(turn.ctx.last_brand)
     /\ Falsy(turn.ctx.last_equipment_type)
     /\ NamesEquipment(turn.user_input))
    => ~turn.followup

W_C22 ==
    /\ turn.kind = "turn"
    /\ turn.ctx.last_question # <<>>
    /\ Falsy(turn.ctx.last_brand)
    /\ Falsy(turn.ctx.last_equipment_type)
    /\ turn.user_input = MsgMetosVsVulcan
    /\ WordCount(turn.user_input) <= ShortWords
    /\ ~turn.followup

CitedPairs(refs) ==
    UNION {{<<refs.parts[i].title, refs.parts[i].page_ref.pages[k]>> :
               k \in 1..Len(refs.parts[i].page_ref.pages)} :
           i \in 1..Len(refs.parts)}

\* the first five passages by rank
FirstFive(docs) == 1..(IF Len(docs) < 5 THEN Len(docs) ELSE 5)

\* C24 (as stated): among the first 5 passages a passage is left out of the
\* citation only when it lacks both a title and a page number; every other
\* one contributes its page to the citation of its title.
C24_LeftOutOnlyWithoutBoth ==
    pc = "referenced"
    => \A i \in FirstFive(ref_docs) :
          (/\ ~(Falsy(ref_docs[i].title) /\ ref_docs[i].page_number = NoPage)
           /\ ref_docs[i].page_number # NoPage)
          => <<ref_docs[i].title, ref_docs[i].page_number>>
                \in CitedPairs(references)

\* C24 (amended): only the first 5 passages are read; a passage among them
\* contributes its page to the citation of its title exactly when it has a
\* non-empty title and a page number, and is left out when either is
\* missing; when no passage qualifies the result is empty and the answer
\* carries no reference section.
C24_CitedNeedsTitleAndPage ==
    pc = "referenced"
    => LET qualifying ==
               {i \in FirstFive(ref_docs) :
                   Truthy(ref_docs[i].title) /\ ref_docs[i].page_number # NoPage}
       IN  /\ CitedPairs(references) =
                  {<<ref_docs[i].title, ref_docs[i].page_number>> : i \in qualifying}
           /\ qualifying = {}
                  => /\ references = NoReferences
                     /\ generate_answer(rstate, ref_docs).references = NoReferences

\* a passage with a page number and an empty title ranks first and is left
\* out, while the second passage is cited
W_C24 ==
    /\ pc = "referenced"
    /\ Len(ref_docs) = 2
    /\ ref_docs[1] = RefDoc("", 1)
    /\ ref_docs[2] = RefDoc("Coffee Maker Manual", 2)
    /\ CitedPairs(references) = {<<"Coffee Maker Manual", 2>>}

\* C25: a follow-up turn that starts from a context with a non-empty brand B
\* and a non-empty equipment type T stores a context that still has brand B
\* and type T, whatever passages the search returned; so the brand and the
\* type survive every run of consecutive follow-up turns.
C25_FollowupsKeepBrandAndType ==
    [][(/\ turn'.kind = "turn"
        /\ turn'.ctx = short_ctx
        /\ turn'.followup
        /\ Truthy(short_ctx.last_brand)
        /\ Truthy(short_ctx.last_equipment_type))
       => /\ short_ctx'.last_brand = short_ctx.last_brand
          /\ short_ctx'.last_equipment_type = short_ctx.last_equipment_type]_vars

\* a follow-up under the Metos coffee maker lock whose search returned only
\* passages of the Vulcan oven
W_C25 ==
    /\ turn.kind = "turn"
    /\ turn.followup
    /\ turn.ctx.last_brand = "Metos"
    /\ turn.ctx.last_equipment_type = "Coffee_Maker"
    /\ turn.out.documents # <<>>
    /\ \A i \in 1..Len(turn.out.documents) :
           turn.out.documents[i].equipment_brand = "Vulcan"
    /\ short_ctx.last_brand = "Metos"
    /\ short_ctx.last_equipment_type = "Coffee_Maker"

\* C26: on the locked path with a locked equipment type T (and a locked
\* brand B when one is set) every passage returned carries equipment_type T
\* (and equipment_brand B).
C26_LockedPassagesCarryLock ==
    (pc = "done" /\ Truthy(rstate.locked_type))
    => \A i \in 1..Len(rout.documents) :
          /\ rout.documents[i].equipment_type = rstate.locked_type
          /\ Truthy(rstate.locked_brand)
                => rout.documents[i].equipment_brand = rstate.locked_brand

\* C27: whenever the unlocked path issues the filtered search, some passage
\* among the stage-1 top 12 carries both the detected type and the detected
\* brand the search filters by.
C27_Stage2FiltersConsistent ==
    (pc = "done" /\ rout.voted /\ Len(rout.calls) = 2)
    => \E i \in 1..Len(rout.all_results) :
          /\ i <= VoteWindow
          /\ rout.all_results[i].equipment_type = rout.calls[2].equipment_type
          /\ Truthy(rout.calls[2].equipment_brand)
                => rout.all_results[i].equipment_brand
                       = rout.calls[2].equipment_brand

RECURSIVE CountMarker(_)
CountMarker(text) ==
    IF text = <<>> THEN 0
    ELSE (IF Head(text) = "Follow-up:" THEN 1 ELSE 0) + CountMarker(Tail(text))

\* C28: if the query call of a turn raises, the conversation context and the
\* stored follow-up options are what they were before the turn; only the
\* chat history gains the user message and an error message.
C28_FailedTurnKeepsContext ==
    [][(turn'.kind = "error" /\ messages' # messages)
       => /\ short_ctx' = short_ctx
          /\ last_followup_options' = last_followup_options
          /\ \E m \in ChatInputs :
                messages' = messages \o <<[role |-> "user", content |-> m],
                                          [role |-> "assistant",
                                           content |-> "error"]>>]_vars

\* the second turn fails after a first turn that resolved the Vulcan oven
\* and left a follow-up option
W_C28 ==
    /\ turn.kind = "error"
    /\ Len(messages) = 4
    /\ messages[4].content = "error"
    /\ short_ctx.last_question = MsgVulcanOven
    /\ short_ctx.last_brand = "Vulcan"
    /\ last_followup_options = <<MsgShift>>

\* the message a prompt stands for: the option it numbers, or itself
ExpandedInput(original, options) ==
    IF OptionNumber(original) >= 1 /\ OptionNumber(original) <= Len(options)
    THEN options[OptionNumber(original)]
    ELSE original

\* C29: after every successful turn last_question is that turn's user
\* message (after numbered-option expansion) and never the composed
\* retrieval query; the retrieval query of a follow-up turn is the prior
\* user message, one "Follow-up:" marker and the message, and does not grow
\* from turn to turn.
C29_RetrievalQueryDoesNotGrow ==
    [][(turn'.kind = "turn" /\ messages' # messages)
       => LET expected ==
                  ExpandedInput(messages'[Len(messages') - 1].content,
                                last_followup_options)
              retrieval_query == turn'.state.rewritten_question
          IN  /\ short_ctx'.last_question = expected
              /\ CountMarker(short_ctx'.last_question) = 0
              /\ turn'.followup
                    => /\ retrieval_query =
                             short_ctx.last_question
                                 \o <<"\n", "Follow-up:">> \o expected
                       /\ CountMarker(retrieval_query) = 1
              /\ ~turn'.followup => retrieval_query = expected]_vars

\* the third turn is the second follow-up in a row: its retrieval query
\* holds the message of the second turn and not the question of the first
W_C29 ==
    /\ turn.kind = "turn"
    /\ Len(messages) = 6
    /\ messages[1].content = MsgVulcanOven
    /\ messages[3].content = MsgAffirm
    /\ messages[4].content = "answer"
    /\ turn.followup
    /\ turn.user_input = MsgAffirm
    /\ turn.state.rewritten_question =
           MsgAffirm \o <<"\n", "Follow-up:">> \o MsgAffirm
    /\ short_ctx.last_question = MsgAffirm

\* C30: only the first 5 passages are read, so no title collects more than 5
\* distinct pages and no citation is a page range or carries an "and K more"
\* suffix.
C30_NoRangeNoMore ==
    pc = "referenced"
    => /\ \A ti \in {"Coffee Maker Manual",
                      "Vulcan Installation & Operation Manual"} :
             Cardinality(CitedPages(ref_docs, ti)) <= 5
       /\ \A i \in 1..Len(references.parts) :
             /\ references.parts[i].page_ref.form \in {"Page", "Pages list"}
             /\ references.parts[i].page_ref.more = 0
             /\ Len(references.parts[i].page_ref.pages) <= 5

\* six passages of one manual on six pages, highest page first: the five
\* pages of the first five passages are listed and the sixth is not cited
W_C30 ==
    /\ pc = "referenced"
    /\ Len(ref_docs) = 6
    /\ \A i \in 1..6 : ref_docs[i] = RefDoc("Coffee Maker Manual", 7 - i)
    /\ Len(references.parts) = 1
    /\ references.parts[1].page_ref =
           [form |-> "Pages list", pages |-> <<2, 3, 4, 5, 6>>, more |-> 0]
====
